---- MODULE Spec2Model ----
(***************************************************************************)
(* Order intake pipeline of autokraft-backend.                             *)
(*                                                                         *)
(* The repository holds four order-submission handlers that are rewrites   *)
(* of one another, each with its own upload filter, schema and listing:    *)
(*   variant 1  src/server.js:1-179     (first version of the server)      *)
(*   variant 2  src/server.js:180-455   (second version of the server)     *)
(*   variant 3  src/routes/orders.js    (router, uses src/models/Order.js) *)
(*   variant 4  src/unnamed/part_000    (router, uses src/models/Order.js) *)
(* A deployment runs one of them; `version` says which.                    *)
(*                                                                         *)
(* Strings are sequences of one-character strings, so that the regular     *)
(* expressions and Number() of the code are computed, not assumed.         *)
(***************************************************************************)
EXTENDS Integers, Sequences, FiniteSets, TLC

(* ------------------------------- bounds -------------------------------- *)
\* submissions per behaviour
MaxReqs == 2
\* Date.now() ranges over 0..MaxClock
MaxClock == 1
\* Math.round(Math.random() * 1E9) ranges over 0..RandBound
RandBound == 1
\* at most this many required fields are left out of one submission
MaxAbsent == 1

(* ------------------------------ strings -------------------------------- *)
Digits == {"0", "1", "2", "3", "4", "5", "6", "7", "8", "9"}

DigitVal(c) ==
    CASE c = "0" -> 0 [] c = "1" -> 1 [] c = "2" -> 2 [] c = "3" -> 3
      [] c = "4" -> 4 [] c = "5" -> 5 [] c = "6" -> 6 [] c = "7" -> 7
      [] c = "8" -> 8 [] c = "9" -> 9

\* /^\d{10}$/.test(v)
PhoneValidator(v) == Len(v) = 10 /\ \A i \in 1..Len(v) : v[i] \in Digits

\* /.+\@.+\..+/ (unanchored): a character, "@", a character, ".", a character
EmailMatch(v) ==
    \E i \in 1..Len(v) : \E j \in 1..Len(v) :
        /\ v[i] = "@" /\ i > 1
        /\ v[j] = "." /\ j > i + 1 /\ j < Len(v)

\* a JS number: NaN, or an integer value
NaN == [nan |-> TRUE, n |-> 0]
Num(n) == [nan |-> FALSE, n |-> n]

RECURSIVE DigitsValue(_)
DigitsValue(s) ==
    IF s = <<>> THEN 0
    ELSE 10 * DigitsValue(SubSeq(s, 1, Len(s) - 1)) + DigitVal(s[Len(s)])

AllDigits(s) == Len(s) >= 1 /\ \A i \in 1..Len(s) : s[i] \in Digits

\* Number(str) on the strings a form field can carry: "" is 0, an optionally
\* signed run of digits is its value, anything else is NaN
ToNumber(s) ==
    IF s = <<>> THEN Num(0)
    ELSE IF AllDigits(s) THEN Num(DigitsValue(s))
    ELSE IF s[1] = "-" /\ AllDigits(Tail(s)) THEN Num(0 - DigitsValue(Tail(s)))
    ELSE NaN

(* --------------------------- products / JSON --------------------------- *)
\* A product line as it appears inside the serialized products field; keys
\* is the set of properties the object carries.
LineKeys == {"productId", "name", "price", "quantity"}

LineOf(tok) ==
    CASE tok = "good"  -> [keys |-> LineKeys, price |-> 100, quantity |-> 1]
      [] tok = "qty0"  -> [keys |-> LineKeys, price |-> 100, quantity |-> 0]
      [] tok = "neg"   -> [keys |-> LineKeys, price |-> 0 - 1, quantity |-> 1]
      [] tok = "noid"  -> [keys |-> LineKeys \ {"productId"}, price |-> 100, quantity |-> 1]

LineTokens == {"good", "qty0", "neg", "noid"}

\* The serialized field is a sequence of tokens: "[" "]" "{" "}" "," and
\* line tokens.  JSON.parse: a well-formed array, a well-formed object, or
\* a SyntaxError.
IsArrayText(s) ==
    /\ Len(s) >= 2 /\ s[1] = "[" /\ s[Len(s)] = "]"
    /\ LET n == Len(s) - 2 IN
         \/ n = 0
         \/ /\ n % 2 = 1
            /\ \A i \in 1..n : IF i % 2 = 1 THEN s[i + 1] \in LineTokens
                                            ELSE s[i + 1] = ","

ArrayItems(s) ==
    LET n == Len(s) - 2 IN [k \in 1..((n + 1) \div 2) |-> LineOf(s[2 * k])]

JSONParse(s) ==
    IF IsArrayText(s) THEN [kind |-> "array", items |-> ArrayItems(s)]
    ELSE IF s = <<"{", "}">> THEN [kind |-> "object", items |-> <<>>]
    ELSE [kind |-> "SyntaxError", items |-> <<>>]

(* ------------------------------ the request ---------------------------- *)
Versions == {1, 2, 3, 4}

requiredFields ==
    <<"name", "email", "phone", "address", "pincode", "city", "totalAmount", "products">>

FieldNames == {requiredFields[i] : i \in 1..Len(requiredFields)}

\* one multipart text field: undefined, or a string
Undefined == [present |-> FALSE, s |-> <<>>]
Str(s) == [present |-> TRUE, s |-> s]

\* JS falsiness of a field: undefined or ""
Falsy(x) == ~x.present \/ x.s = <<>>

\* req.file: undefined, or multer's descriptor of the stored upload
NoName == [ts |-> 0, rnd |-> 0, ext |-> ""]
NoFile == [present |-> FALSE, dir |-> "", name |-> NoName]

\* `${Date.now()}-${Math.round(Math.random() * 1E9)}${path.extname(file.originalname)}`
uniqueName(now, rnd, ext) == [ts |-> now, rnd |-> rnd, ext |-> ext]

\* destination of the disk storage
uploadDir(v) == IF v \in {1, 2} THEN "uploads/" ELSE "uploads/payments/"

FileAt(v, name) == [present |-> TRUE, dir |-> uploadDir(v), name |-> name]

\* req.file.path
PathOf(file) == [dir |-> file.dir, name |-> file.name]

(* ------------------------------- upload -------------------------------- *)
\* a declared MIME type is <<type, subtype>>
allowedTypes == {<<"image", "jpeg">>, <<"image", "png">>, <<"image", "jpg">>}

\* TRUE when the filter accepts the file
fileFilter(v, mimetype) ==
    IF v \in {1, 2} THEN mimetype \in allowedTypes
    ELSE mimetype[1] = "image"

\* limits.fileSize, in bytes; 0 stands for no limit
fileSize(v) == IF v \in {1, 2} THEN 5 * 1024 * 1024 ELSE 0

TooLarge(v, bytes) == fileSize(v) > 0 /\ bytes > fileSize(v)

Res(status, message, fields, detail) ==
    [status |-> status, message |-> message, fields |-> fields, detail |-> detail]

\* What the application's error-handling middleware answers when multer
\* passes an error to next(): code is the MulterError code, or "Error" for a
\* plain Error.  The routers define no error handler of their own; a plain
\* Error reaches the application's handler, which answers 500.
errorHandler(v, code, dev) ==
    IF v = 1 THEN Res(500, "Something went wrong!", <<>>, {})
    ELSE IF v = 2 /\ code = "LIMIT_UNEXPECTED_FILE" THEN Res(400, "Unexpected field", <<>>, {})
    ELSE IF v = 2 /\ code = "LIMIT_FILE_SIZE" THEN Res(400, "File too large", <<>>, {})
    ELSE Res(500, "Internal Server Error", <<>>, IF dev THEN {code} ELSE {})

\* the error the filter raises on a rejected type
filterError(v) == IF v = 2 THEN "LIMIT_UNEXPECTED_FILE" ELSE "Error"

(* ------------------------------ documents ------------------------------ *)
NoDate == 0 - 1

\* what mongoose makes of the value given for the products path: an array
\* as it is, any other value wrapped into a one-element array
CastProducts(parsed) ==
    IF parsed.kind = "array" THEN parsed.items
    ELSE <<[keys |-> {}, price |-> 0, quantity |-> 0]>>

\* paymentScreenshot of the new document
ScreenshotRef(v, file) ==
    IF v \in {1, 2} THEN [dir |-> "/uploads/", name |-> file.name]
    ELSE PathOf(file)

\* new Order({...}): variants 2, 3, 4 declare orderDate with default Date.now;
\* variants 1 and 2 declare { timestamps: true } (createdAt, set when save()
\* is called, in the same turn of the event loop as the construction)
newOrder(v, body, file, parsed, now) ==
    [customerInfo |-> [f \in {"name", "email", "phone", "address", "pincode", "city"} |-> body[f]],
     products |-> CastProducts(parsed),
     totalAmount |-> [present |-> ~Falsy(body["totalAmount"]),
                      num |-> ToNumber(body["totalAmount"].s)],
     paymentScreenshot |-> ScreenshotRef(v, file),
     orderDate |-> IF v = 1 THEN NoDate ELSE now,
     createdAt |-> IF v \in {1, 2} THEN now ELSE NoDate,
     status |-> "pending"]

\* the stored file a paymentScreenshot value refers to: variants 1 and 2
\* serve the upload directory under /uploads (express.static), variants 3
\* and 4 keep req.file.path itself
staticFile(v, ref) ==
    IF v \in {1, 2} THEN [dir |-> uploadDir(v), name |-> ref.name] ELSE ref

NoDoc == newOrder(1, [f \in FieldNames |-> Undefined], NoFile,
                  [kind |-> "array", items |-> <<>>], NoDate)

\* The paths mongoose's validation rejects when save() is called.  Variant 1
\* uses the schema of src/server.js:84-103, variant 2 that of
\* src/server.js:270-303, variants 3 and 4 that of src/models/Order.js.
LineErrors(v, line) ==
    {k \in LineKeys : k \notin line.keys}
    \cup (IF v = 2 /\ "price" \in line.keys /\ line.price < 0 THEN {"price"} ELSE {})
    \cup (IF v = 2 /\ "quantity" \in line.keys /\ line.quantity < 1 THEN {"quantity"} ELSE {})

SchemaErrors(v, doc) ==
    {f \in DOMAIN doc.customerInfo : Falsy(doc.customerInfo[f])}
    \cup (IF v = 2 /\ ~Falsy(doc.customerInfo["email"])
             /\ ~EmailMatch(doc.customerInfo["email"].s) THEN {"email"} ELSE {})
    \cup (IF v = 2 /\ ~Falsy(doc.customerInfo["phone"])
             /\ ~PhoneValidator(doc.customerInfo["phone"].s) THEN {"phone"} ELSE {})
    \cup (IF \E i \in 1..Len(doc.products) : LineErrors(v, doc.products[i]) # {}
          THEN {"products"} ELSE {})
    \cup (IF \/ ~doc.totalAmount.present
             \/ doc.totalAmount.num.nan
             \/ (v = 2 /\ doc.totalAmount.num.n < 0)
          THEN {"totalAmount"} ELSE {})

(* ------------------- the handlers, up to `await save()` ----------------- *)
\* A handler's synchronous part ends in one of three ways: it responds
\* (an early return), it throws into its catch block, or it calls save().
NoRes == Res(0, "", <<>>, {})
Respond(res) == [step |-> "respond", res |-> res, doc |-> NoDoc]
Throw(what) == [step |-> "throw", res |-> Res(0, what, <<>>, {}), doc |-> NoDoc]
Save(doc) == [step |-> "save", res |-> NoRes, doc |-> doc]

\* requiredFields.filter(field => !body[field])
missingFields(body) == SelectSeq(requiredFields, LAMBDA f : Falsy(body[f]))

\* src/server.js:108-129
PostOrdersV1(body, file, now) ==
    IF ~file.present THEN Respond(Res(400, "Payment screenshot is required", <<>>, {}))
    ELSE IF \E f \in FieldNames : Falsy(body[f])
    THEN Respond(Res(400, "All fields are required", <<>>, {}))
    ELSE LET parsed == JSONParse(body["products"].s) IN
         IF parsed.kind = "SyntaxError" THEN Throw("SyntaxError")
         ELSE Save(newOrder(1, body, file, parsed, now))

\* src/server.js:308-353
PostOrdersV2(body, file, now) ==
    IF ~file.present THEN Respond(Res(400, "Payment screenshot is required", <<>>, {}))
    ELSE IF Len(missingFields(body)) > 0
    THEN Respond(Res(400, "Missing required fields", missingFields(body), {}))
    ELSE LET parsedProducts == JSONParse(body["products"].s) IN
         IF parsedProducts.kind = "SyntaxError"
         THEN Respond(Res(400, "Invalid products format", <<>>, {}))
         ELSE Save(newOrder(2, body, file, parsedProducts, now))

\* src/routes/orders.js:35-56
RouterPostV3(body, file, now) ==
    LET parsed == JSONParse(body["products"].s) IN
    IF Falsy(body["products"]) THEN Respond(Res(400, "Cart cannot be empty", <<>>, {}))
    ELSE IF parsed.kind = "SyntaxError" THEN Throw("SyntaxError")
    ELSE IF parsed.kind = "array" /\ Len(parsed.items) = 0
    THEN Respond(Res(400, "Cart cannot be empty", <<>>, {}))
    ELSE IF Falsy(body["email"]) \/ Falsy(body["address"]) \/ ~file.present
    THEN Respond(Res(400, "Required fields missing", <<>>, {}))
    ELSE Save(newOrder(3, body, file, parsed, now))

\* src/unnamed/part_000:51-77
RouterPostV4(body, file, now) ==
    LET parsedProducts == JSONParse(body["products"].s) IN
    IF Falsy(body["products"]) THEN Respond(Res(400, "Products data is required", <<>>, {}))
    ELSE IF parsedProducts.kind = "SyntaxError" THEN Throw("SyntaxError")
    ELSE IF parsedProducts.kind # "array" \/ Len(parsedProducts.items) = 0
    THEN Respond(Res(400, "Cart cannot be empty", <<>>, {}))
    ELSE IF Falsy(body["email"]) \/ Falsy(body["address"]) \/ ~file.present
    THEN Respond(Res(400, "Required fields missing or payment screenshot not uploaded", <<>>, {}))
    ELSE Save(newOrder(4, body, file, parsedProducts, now))

Handler(v, body, file, now) ==
    CASE v = 1 -> PostOrdersV1(body, file, now)
      [] v = 2 -> PostOrdersV2(body, file, now)
      [] v = 3 -> RouterPostV3(body, file, now)
      [] v = 4 -> RouterPostV4(body, file, now)

\* The response the catch block sends; devel is NODE_ENV === 'development'.
\* what is the error's message: the rejected paths of a ValidationError, or
\* the name of any other error.
catchResponse(v, what, devel) ==
    IF v \in {1, 2}
    THEN Res(500, "Failed to create order", <<>>, IF v = 2 /\ devel THEN what ELSE {})
    ELSE Res(400, "Order processing failed", <<>>, what)

(* ------------------------------- listing ------------------------------- *)
\* the sort key of find().sort({...: -1}): createdAt in variant 1
\* (src/server.js:139), orderDate in the others
sortKey(v, doc) == IF v = 1 THEN doc.createdAt ELSE doc.orderDate

\* -1: a document comes before another when its key is not smaller
Descending(a, b) == a >= b
Ascending(a, b) == a =< b
sortOrder(a, b) == Descending(a, b)

Perms(n) == {p \in [1..n -> 1..n] : \A i \in 1..n : \A j \in 1..n : p[i] = p[j] => i = j}

\* every answer find().sort() may give: the stored documents, ordered by
\* the key; documents with equal keys come in an order the store chooses
find(v, stored) ==
    {[i \in 1..Len(stored) |-> stored[p[i]]] : p \in
        {q \in Perms(Len(stored)) :
            \A i \in 1..Len(stored) : \A j \in 1..Len(stored) :
                i < j => sortOrder(sortKey(v, stored[q[i]].doc), sortKey(v, stored[q[j]].doc))}}

\* the answer of the listing endpoint to the outcome of its query
getOrders(result) ==
    IF result.rejected THEN [status |-> 500, rejected |-> TRUE, orders |-> <<>>]
    ELSE [status |-> 200, rejected |-> FALSE, orders |-> result.docs]

(* ------------------------------- inputs -------------------------------- *)
validBody ==
    [f \in FieldNames |->
        CASE f = "name"        -> Str(<<"A">>)
          [] f = "email"       -> Str(<<"a", "@", "b", ".", "c", "o", "m">>)
          [] f = "phone"       -> Str(<<"1", "2", "3", "4", "5", "6", "7", "8", "9", "0">>)
          [] f = "address"     -> Str(<<"X">>)
          [] f = "pincode"     -> Str(<<"0", "0", "0">>)
          [] f = "city"        -> Str(<<"Y">>)
          [] f = "totalAmount" -> Str(<<"1", "0", "0">>)
          [] f = "products"    -> Str(<<"[", "good", "]">>)]

Without(S) == [f \in FieldNames |-> IF f \in S THEN Undefined ELSE validBody[f]]
With(f, s) == [validBody EXCEPT ![f] = Str(s)]

\* the submissions tried: the valid one with up to MaxAbsent fields left
\* out, and the valid one with one field changed
Bodies ==
    {Without(S) : S \in {T \in SUBSET FieldNames : Cardinality(T) =< MaxAbsent}}
    \cup {With("phone", <<"1", "2", "3", "4", "5">>),
          With("email", <<"a", "b">>),
          With("name", <<>>),
          With("totalAmount", <<"-", "5">>),
          With("totalAmount", <<"a", "b", "c">>),
          With("products", <<"[", "]">>),
          With("products", <<"[", "good">>),
          With("products", <<"{", "}">>),
          With("products", <<"[", "qty0", "]">>),
          With("products", <<"[", "good", ",", "good", "]">>)}

NoBody == Without(FieldNames)

MimeTypes == {<<"image", "jpeg">>, <<"image", "gif">>, <<"application", "pdf">>}
NoMime == <<"", "">>
Exts == {".jpg"}
Sizes == {1024, 5 * 1024 * 1024 + 1}

ReqIds == 1..MaxReqs

(* -------------------------------- state -------------------------------- *)
VARIABLES
    version,    \* which variant of the handlers is deployed
    clock,      \* Date.now()
    files,      \* the upload directory: stored path -> the submission that wrote it
    orders,     \* the orders collection, in insertion order
    pc,         \* where each submission is
    file,       \* req.file of each submission while its handler runs
    body,       \* req.body of each submission, once its handler has read it
    draft,      \* the document each submission is saving
    unlinks,    \* fs.unlink calls issued and not yet completed
    lastRes,    \* the response the last step sent to a submission, if any
    listing,    \* the answer the last step gave to a listing request, if any
    logged      \* the submissions whose deletion error the last step logged

vars == <<version, clock, files, orders, pc, file, body, draft, unlinks,
          lastRes, listing, logged>>

NoLast ==
    [req |-> 0, mimetype |-> NoMime, body |-> NoBody, hasFile |-> FALSE,
     res |-> NoRes, cause |-> "", stored |-> FALSE]

NoListing == [status |-> 0, rejected |-> FALSE, orders |-> <<>>]

\* a step that sends nothing
Quiet == lastRes' = NoLast /\ listing' = NoListing /\ logged' = {}

Init ==
    /\ version \in Versions
    /\ clock = 0
    /\ files = [q \in {} |-> 0]
    /\ orders = <<>>
    /\ pc = [r \in ReqIds |-> "new"]
    /\ file = [r \in ReqIds |-> NoFile]
    /\ body = [r \in ReqIds |-> NoBody]
    /\ draft = [r \in ReqIds |-> NoDoc]
    /\ unlinks = {}
    /\ lastRes = NoLast
    /\ listing = NoListing
    /\ logged = {}

Stored(path) == path \in DOMAIN files
WriteFile(path, r) == [q \in DOMAIN files \cup {path} |-> IF q = path THEN r ELSE files[q]]
RemoveFile(path) == [q \in DOMAIN files \ {path} |-> files[q]]

\* res.status(...).json(...) for submission r: the response, with what the
\* submission carried and whether the file it uploaded is in storage (in fs)
\* when the response is sent
Sent(r, mt, b, res, cause, fs) ==
    [req |-> r, mimetype |-> mt, body |-> b, hasFile |-> file[r].present, res |-> res,
     cause |-> cause,
     stored |-> file[r].present /\ PathOf(file[r]) \in DOMAIN fs]

\* the handler of submission r has returned: req goes out of scope
Finish(r, how) ==
    /\ pc' = [pc EXCEPT ![r] = how]
    /\ file' = [file EXCEPT ![r] = NoFile]
    /\ body' = [body EXCEPT ![r] = NoBody]
    /\ draft' = [draft EXCEPT ![r] = NoDoc]

(* ------------------------------- upload -------------------------------- *)
\* Nothing reads req.body before the handler does, so the text fields of a
\* submission are drawn where they are first read: by the handler, or (for
\* the record of the response) when the upload is refused.

\* upload.single('paymentScreenshot') on a submission that carries no file
NoUpload(r) ==
    /\ pc[r] = "new"
    /\ \A q \in ReqIds : q < r => pc[q] # "new"
    /\ pc' = [pc EXCEPT ![r] = "uploaded"]
    /\ Quiet
    /\ UNCHANGED <<version, clock, files, orders, file, body, draft, unlinks>>

\* the filter refuses the declared type, or the stream exceeds the limit (the
\* partial file is removed): the error goes to the error handler and the
\* route handler never runs
RejectUpload(r) ==
    /\ pc[r] = "new"
    /\ \A q \in ReqIds : q < r => pc[q] # "new"
    /\ \E mt \in MimeTypes : \E bytes \in Sizes : \E b \in Bodies : \E devel \in BOOLEAN :
         /\ ~fileFilter(version, mt) \/ TooLarge(version, bytes)
         /\ lastRes' = Sent(r, mt, b,
                            errorHandler(version,
                                         IF ~fileFilter(version, mt) THEN filterError(version)
                                         ELSE "LIMIT_FILE_SIZE", devel),
                            "upload", files)
    /\ listing' = NoListing /\ logged' = {}
    /\ Finish(r, "done")
    /\ UNCHANGED <<version, clock, files, orders, unlinks>>

\* the file is accepted, named and written to the upload directory; a file
\* already stored under the same name is overwritten
AcceptUpload(r) ==
    /\ pc[r] = "new"
    /\ \A q \in ReqIds : q < r => pc[q] # "new"
    /\ \E mt \in MimeTypes : \E bytes \in Sizes : \E ext \in Exts : \E rnd \in 0..RandBound :
         /\ fileFilter(version, mt) /\ ~TooLarge(version, bytes)
         /\ LET f == FileAt(version, uniqueName(clock, rnd, ext)) IN
              /\ file' = [file EXCEPT ![r] = f]
              /\ files' = WriteFile(PathOf(f), r)
    /\ pc' = [pc EXCEPT ![r] = "uploaded"]
    /\ Quiet
    /\ UNCHANGED <<version, clock, orders, body, draft, unlinks>>

(* ----------------------------- catch block ----------------------------- *)
\* The catch block of submission r's handler, entered with an error whose
\* message is `what`, b being the body the handler read.
\*   variant 1 (src/server.js:130-134): fs.unlinkSync, then the response; if
\*     unlinkSync throws (the file is gone, or the call fails), the exception
\*     leaves the handler and nothing is sent
\*   variant 2 (src/server.js:360-374): fs.unlink is issued (its callback
\*     logs an error), then the response
\*   variants 3, 4: the response only
\* devel is process.env.NODE_ENV === 'development', read when the response
\* is built.
catchBlock(r, b, what, cause) ==
    \E devel \in BOOLEAN :
    /\ listing' = NoListing /\ logged' = {}
    /\ CASE version = 1 ->
              IF ~file[r].present
              THEN /\ lastRes' = Sent(r, NoMime, b, catchResponse(1, what, devel), cause, files)
                   /\ Finish(r, "done")
                   /\ UNCHANGED <<files, unlinks>>
              ELSE \/ /\ Stored(PathOf(file[r]))
                      /\ files' = RemoveFile(PathOf(file[r]))
                      /\ lastRes' = Sent(r, NoMime, b, catchResponse(1, what, devel), cause, files')
                      /\ Finish(r, "done")
                      /\ UNCHANGED unlinks
                   \/ /\ lastRes' = NoLast
                      /\ Finish(r, "crashed")
                      /\ UNCHANGED <<files, unlinks>>
         [] version = 2 ->
              /\ unlinks' = IF file[r].present
                            THEN unlinks \cup {[req |-> r, path |-> PathOf(file[r])]}
                            ELSE unlinks
              /\ lastRes' = Sent(r, NoMime, b, catchResponse(2, what, devel), cause, files)
              /\ Finish(r, "done")
              /\ UNCHANGED files
         [] version \in {3, 4} ->
              /\ lastRes' = Sent(r, NoMime, b, catchResponse(version, what, devel), cause, files)
              /\ Finish(r, "done")
              /\ UNCHANGED <<files, unlinks>>

(* ------------------------------ handlers ------------------------------- *)
\* the handler runs up to an early return
HandleRespond(r) ==
    /\ pc[r] = "uploaded"
    /\ \E b \in Bodies :
         LET out == Handler(version, b, file[r], clock) IN
         /\ out.step = "respond"
         /\ lastRes' = Sent(r, NoMime, b, out.res, "inline", files)
    /\ listing' = NoListing /\ logged' = {}
    /\ Finish(r, "done")
    /\ UNCHANGED <<version, clock, files, orders, unlinks>>

\* JSON.parse throws into the catch block
HandleThrow(r) ==
    /\ pc[r] = "uploaded"
    /\ \E b \in Bodies :
         LET out == Handler(version, b, file[r], clock) IN
         /\ out.step = "throw"
         /\ catchBlock(r, b, {out.res.message}, out.res.message)
    /\ UNCHANGED <<version, clock, orders>>

\* the handler builds the document and calls save()
HandleSave(r) ==
    /\ pc[r] = "uploaded"
    /\ \E b \in Bodies :
         LET out == Handler(version, b, file[r], clock) IN
         /\ out.step = "save"
         /\ body' = [body EXCEPT ![r] = b]
         /\ draft' = [draft EXCEPT ![r] = out.doc]
    /\ pc' = [pc EXCEPT ![r] = "saving"]
    /\ Quiet
    /\ UNCHANGED <<version, clock, files, orders, file, unlinks>>

\* save() rejects: the document fails the schema's validation
SaveInvalid(r) ==
    /\ pc[r] = "saving"
    /\ SchemaErrors(version, draft[r]) # {}
    /\ catchBlock(r, body[r], SchemaErrors(version, draft[r]), "ValidationError")
    /\ UNCHANGED <<version, clock, orders>>

\* save() rejects: the insert fails in the database
SaveDbFail(r) ==
    /\ pc[r] = "saving"
    /\ SchemaErrors(version, draft[r]) = {}
    /\ catchBlock(r, body[r], {"MongoError"}, "db")
    /\ UNCHANGED <<version, clock, orders>>

\* save() resolves: the document is inserted and the handler answers 201
SaveOk(r) ==
    /\ pc[r] = "saving"
    /\ SchemaErrors(version, draft[r]) = {}
    /\ orders' = Append(orders, [id |-> r, doc |-> draft[r]])
    /\ lastRes' = Sent(r, NoMime, body[r], Res(201, "", <<>>, {}), "ok", files)
    /\ listing' = NoListing /\ logged' = {}
    /\ Finish(r, "done")
    /\ UNCHANGED <<version, clock, files, unlinks>>

(* --------------------------- fs.unlink callback ------------------------ *)
UnlinkOk(u) ==
    /\ u \in unlinks
    /\ Stored(u.path)
    /\ files' = RemoveFile(u.path)
    /\ unlinks' = unlinks \ {u}
    /\ Quiet
    /\ UNCHANGED <<version, clock, orders, pc, file, body, draft>>

\* the file is gone (ENOENT) or the call fails: console.error, nothing else
UnlinkErr(u) ==
    /\ u \in unlinks
    /\ unlinks' = unlinks \ {u}
    /\ logged' = {u.req}
    /\ lastRes' = NoLast /\ listing' = NoListing
    /\ UNCHANGED <<version, clock, files, orders, pc, file, body, draft>>

(* ------------------------------- listing ------------------------------- *)
\* app.get('/api/orders') / router.get('/'): the documents when the query
\* resolves, a 500 when it rejects
List ==
    /\ \E result \in {[rejected |-> FALSE, docs |-> l] : l \in find(version, orders)}
                     \cup {[rejected |-> TRUE, docs |-> <<>>]} :
         listing' = getOrders(result)
    /\ lastRes' = NoLast /\ logged' = {}
    /\ UNCHANGED <<version, clock, files, orders, pc, file, body, draft, unlinks>>

Tick ==
    /\ clock < MaxClock
    /\ clock' = clock + 1
    /\ Quiet
    /\ UNCHANGED <<version, files, orders, pc, file, body, draft, unlinks>>

Next ==
    \/ \E r \in ReqIds : NoUpload(r)
    \/ \E r \in ReqIds : RejectUpload(r)
    \/ \E r \in ReqIds : AcceptUpload(r)
    \/ \E r \in ReqIds : HandleRespond(r)
    \/ \E r \in ReqIds : HandleThrow(r)
    \/ \E r \in ReqIds : HandleSave(r)
    \/ \E r \in ReqIds : SaveInvalid(r)
    \/ \E r \in ReqIds : SaveDbFail(r)
    \/ \E r \in ReqIds : SaveOk(r)
    \/ \E u \in unlinks : UnlinkOk(u)
    \/ \E u \in unlinks : UnlinkErr(u)
    \/ List
    \/ Tick

Spec == Init /\ [][Next]_vars

(* ============================== the claims ============================== *)
Persisted(r) == \E i \in 1..Len(orders) : orders[i].id = r

ClientFault(res) == res.status >= 400 /\ res.status < 500

\* the fields a body leaves out
AbsentOf(b) == {f \in FieldNames : ~b[f].present}

\* a body that is the valid submission except for one field
PhoneShort == With("phone", <<"1", "2", "3", "4", "5">>)
EmptyCartBody == With("products", <<"[", "]">>)

\* the response answers a submission whose payload failed validation: in the
\* handler itself, in JSON.parse, or in the schema's validation
ValidationFailed(l) == l.cause \in {"inline", "SyntaxError", "ValidationError"}

\* C1: no validation-failure response is sent to a submission while the file
\* it uploaded is still in storage.
C1_NoFileLeftOnValidationFailure ==
    (lastRes.hasFile /\ ValidationFailed(lastRes)) => ~lastRes.stored

\* C2: every persisted order has a non-empty paymentScreenshot reference and
\* at least one product line.
C2_OrdersComplete ==
    \A i \in 1..Len(orders) :
        /\ orders[i].doc.paymentScreenshot.dir # ""
        /\ orders[i].doc.paymentScreenshot.name # NoName
        /\ Len(orders[i].doc.products) >= 1

\* C3: when the insert fails for a submission with a stored file and the valid
\* payload, an error is returned, no order is stored for it, and its file is
\* deleted: removed already, or its deletion is under way.
C3_InsertFailureCompensated ==
    (lastRes.hasFile /\ lastRes.body = validBody /\ lastRes.cause = "db") =>
        /\ lastRes.res.status >= 400
        /\ ~Persisted(lastRes.req)
        /\ \/ ~lastRes.stored
           \/ \E u \in unlinks : u.req = lastRes.req

\* C4: a submission valid in everything but its phone ("12345") gets a
\* client-fault response that names phone, and no order is stored for it
\* (the database failing under it aside).
C4_ShortPhoneRejected ==
    (lastRes.hasFile /\ lastRes.body = PhoneShort /\ lastRes.cause # "db") =>
        /\ ClientFault(lastRes.res)
        /\ "phone" \in lastRes.res.detail
        /\ ~Persisted(lastRes.req)

\* C5: a submission with an accepted file that leaves out the non-empty set S
\* of required fields is rejected with the missing-fields error listing
\* exactly S, and no order is stored for it.
C5_MissingFieldsListed ==
    (lastRes.hasFile /\ AbsentOf(lastRes.body) # {}) =>
        /\ lastRes.res.status = 400
        /\ lastRes.res.message = "Missing required fields"
        /\ {lastRes.res.fields[i] : i \in 1..Len(lastRes.res.fields)} = AbsentOf(lastRes.body)
        /\ ~Persisted(lastRes.req)

\* C6: a submission whose file is declared application/pdf gets a
\* client-fault response, whatever the rest of the payload; nothing is stored
\* and no order is stored for it.
C6_PdfRejected ==
    lastRes.mimetype = <<"application", "pdf">> =>
        /\ ClientFault(lastRes.res)
        /\ ~lastRes.stored
        /\ ~Persisted(lastRes.req)

\* C7: a submission whose products parse to an empty list is rejected with
\* the empty-cart error, and no order is stored for it (the database failing
\* under it aside).
C7_EmptyCartRejected ==
    (lastRes.hasFile /\ lastRes.body = EmptyCartBody /\ lastRes.cause # "db") =>
        /\ ClientFault(lastRes.res)
        /\ lastRes.res.message = "Cart cannot be empty"
        /\ ~Persisted(lastRes.req)

\* C8 as written: the listing is in strictly descending orderDate order.
C8_StrictlyDescending ==
    listing.status = 200 =>
        \A i \in 1..Len(listing.orders) : \A j \in 1..Len(listing.orders) :
            (i < j /\ listing.orders[i].doc.orderDate # NoDate
                   /\ listing.orders[j].doc.orderDate # NoDate)
                => listing.orders[i].doc.orderDate > listing.orders[j].doc.orderDate

IsPermutation(l, stored) ==
    /\ Len(l) = Len(stored)
    /\ \E p \in Perms(Len(stored)) : \A i \in 1..Len(stored) : l[i] = stored[p[i]]

\* C8, amended: a listing request whose query resolves is answered 200 with
\* exactly the stored orders, an order with a later orderDate before every
\* order with an earlier one (orders of equal orderDate in either order), the
\* empty sequence when nothing is stored; and the request changes neither the
\* order store nor the file storage.
C8_ListingSorted ==
    [][listing'.status # 0 =>
        /\ ~listing'.rejected =>
             /\ listing'.status = 200
             /\ IsPermutation(listing'.orders, orders)
             /\ \A i \in 1..Len(listing'.orders) : \A j \in 1..Len(listing'.orders) :
                  i < j => listing'.orders[i].doc.orderDate >= listing'.orders[j].doc.orderDate
        /\ orders' = orders
        /\ files' = files]_vars

\* C8's case: two orders stored oldest first are listed newest first
C8_Witness ==
    /\ listing.status = 200
    /\ Len(orders) = 2 /\ Len(listing.orders) = 2
    /\ orders[1].doc.orderDate # NoDate
    /\ orders[1].doc.orderDate < orders[2].doc.orderDate
    /\ listing.orders[1] = orders[2]
    /\ listing.orders[2] = orders[1]

\* C9: two accepted uploads never get the same storage name.
C9_NamesDistinct ==
    \A r \in ReqIds : \A q \in ReqIds :
        (r # q /\ file[r].present /\ file[q].present) => PathOf(file[r]) # PathOf(file[q])

\* C10: a failing compensating deletion is logged and swallowed: no exception
\* leaves the handler, which still answers with the original failure.
C10_DeletionFailureSwallowed ==
    \A r \in ReqIds : pc[r] # "crashed"

\* C11: referential integrity: the paymentScreenshot of every persisted order
\* refers to a file that is present in the upload directory, whatever the
\* interleaving of succeeding and failing submissions.
C11_ReferencedFilesPresent ==
    \A i \in 1..Len(orders) :
        Stored(staticFile(version, orders[i].doc.paymentScreenshot))

\* the routers never delete a file, so their orders keep their files
Routers_ReferencedFilesPresent ==
    version \in {3, 4} => C11_ReferencedFilesPresent

(* ------------- what the second version of the server satisfies ---------- *)
\* src/server.js:353-374 compensates a failed insert
V2_InsertFailureCompensated == version = 2 => C3_InsertFailureCompensated

\* src/server.js:319-327 lists every missing field
V2_MissingFieldsListed == version = 2 => C5_MissingFieldsListed

\* src/server.js:205-218, 405-421 answer 400 to a PDF
V2_PdfRejected == version = 2 => C6_PdfRejected

\* src/server.js:363-367 logs a failed deletion and nothing else
V2_DeletionFailureSwallowed ==
    version = 2 =>
        /\ C10_DeletionFailureSwallowed
        /\ logged # {} => lastRes = NoLast

====
